---- MODULE Spec2Model ----
(***************************************************************************)
(* The hub-and-spoke inner-bound protocol of mpi-sppy's xhat spokes:       *)
(*   - ScenarioCycler (cylinders/xhataphshuffle_bounder.py), the round-    *)
(*     robin scheduler of the sampling spoke;                              *)
(*   - XhatShuffleInnerBound, the sampling spoke;                          *)
(*   - XhatSpecificInnerBound (cylinders/xhatspecific_bounder.py), the     *)
(*     fixed-set spoke;                                                    *)
(*   - the hub side of the protocol (kill signal, published iterate),      *)
(*     which lives in cylinders/spoke.py and cylinders/hub.py.             *)
(***************************************************************************)
EXTENDS Integers, Sequences, FiniteSets, TLC

(***************************************************************************)
(* Bounds of the model.                                                    *)
(***************************************************************************)
\* Longest candidate order the ScenarioCycler is built over.
MaxOrder == 3

\* Candidate (scenario) names; an order is built from a prefix of them.
Names == <<"s1", "s2", "s3", "s4", "s5">>

\* Python's None: the unset pinned best, and get_next()'s "no candidate".
None == "None"

Range(s) == {s[i] : i \in DOMAIN s}

Reverse(s) == [i \in 1..Len(s) |-> s[Len(s) + 1 - i]]

Prefix(n) == [i \in 1..n |-> Names[i]]

\* The orders a cycler is built over: distinct candidates, in some order.
Orders(maxn) == {Prefix(n) : n \in 1..maxn} \cup {Reverse(Prefix(n)) : n \in 1..maxn}

VARIABLES
    \* ---- ScenarioCycler fields
    all_scenario_list,      \* _all_scenario_list: the fixed order
    cycle_idx,              \* _cycle_idx: the cursor, 0-based
    cur_scen,               \* _cur_scen
    scenarios_this_epoch,   \* _scenarios_this_epoch: the visited set
    best,                   \* _best: the pinned best
    \* ---- what the cycler's caller observed
    op,                     \* the last cycler operation called
    ret,                    \* what it returned
    epoch_start,            \* the cursor when the current epoch began
    epoch_calls,            \* results of the first get_next() calls of the epoch
    epoch_returned,         \* candidates get_next() returned in the epoch
    pinned_read,            \* values a read of best marked in the epoch
    recording,              \* history below is the whole run so far
    history,                \* <<operation, result>> of the calls since construction
    \* ---- the group: hub, kill signal, published iterate
    launched,               \* the spokes of this run
    is_minimizing,          \* the run's optimization sense
    hub_pc,                 \* "running" | "done"
    kill,                   \* the kill signal
    kill_reason,            \* the reason recorded with it
    raises,                 \* raise() calls made on it so far
    raised_with,            \* the reason the last raise() call gave
    version,                \* version of the iterate the hub published last
    values,                 \* its values (the version they were computed as)
    \* ---- the bound reports
    track_reports,          \* the reports in flight are followed
    reports,                \* BoundReports sent and not yet processed by the hub
    hub_best,               \* the hub's running best inner bound
    hub_last,               \* last report processed: <<stale, accepted, over a finite best>>
    \* ---- per spoke (InnerBoundNonantSpoke)
    pc,                     \* where the spoke's main() stands
    opts,                   \* what xhatbase_prep()/ib_prep() read of self.opt
    new_nonants,            \* self.new_nonants
    localnonants,           \* self.localnonants (the version they belong to)
    last_seen,              \* version of the iterate the spoke saw last
    cache,                  \* opt's nonant cache (the version it holds)
    bound,                  \* self.bound: the bound sent to the hub last
    logged,                 \* the spoke printed or logged a diagnostic
    \* ---- the sampling spoke
    ib,                     \* self.ib
    \* ---- what an observer of the spokes saw
    watch,                  \* the observer follows the spokes' ticks
    last_try,               \* last tick: <<candidate, objective, bound sent>>
    evals_after_kill,       \* evaluations begun with the kill signal raised
    ticks_after_kill,       \* ticks begun with the kill signal raised
    best_fed,               \* best feasible objective the sampling spoke was fed
    eval_rec,               \* evlog below holds every evaluation so far
    evlog,                  \* the sampling spoke's evaluations, in order
    epoch_no,               \* begin_epoch() calls of the sampling spoke so far
    eval_on                 \* iterate the sampling spoke's last evaluation ran on

cyclerFields == <<all_scenario_list, cycle_idx, cur_scen, scenarios_this_epoch, best>>

cyclerObs == <<op, ret, epoch_start, epoch_calls, epoch_returned, pinned_read,
               recording, history>>

cyclerVars == <<cyclerFields, cyclerObs>>

hubState == <<launched, is_minimizing, hub_pc, kill, kill_reason, raises,
              raised_with, version, values>>

reportVars == <<track_reports, reports, hub_best, hub_last>>

hubVars == <<hubState, reportVars>>

spokeVars == <<pc, opts, new_nonants, localnonants, last_seen, cache, bound, logged, ib>>

spokeObs == <<watch, last_try, evals_after_kill, ticks_after_kill, best_fed, eval_rec,
              evlog, epoch_no, eval_on>>

vars == <<cyclerVars, hubVars, spokeVars, spokeObs>>

num_scenarios == Len(all_scenario_list)

\* How much of an epoch, and of the run, the observer keeps.
MaxCalls == MaxOrder + 1

MaxHist == MaxOrder + 3

(***************************************************************************)
(* ScenarioCycler.  Its methods are functions of the object's fields c and *)
(* give the fields after the call and the value returned.                  *)
(***************************************************************************)
\* The fields of the cycler in the current state.
Cycler ==
    [all_scenario_list |-> all_scenario_list,
     cycle_idx |-> cycle_idx,
     cur_scen |-> cur_scen,
     scenarios_this_epoch |-> scenarios_this_epoch,
     best |-> best]

SetCycler(c) ==
    /\ all_scenario_list' = c.all_scenario_list
    /\ cycle_idx' = c.cycle_idx
    /\ cur_scen' = c.cur_scen
    /\ scenarios_this_epoch' = c.scenarios_this_epoch
    /\ best' = c.best

InitCycler(c) ==
    /\ all_scenario_list = c.all_scenario_list
    /\ cycle_idx = c.cycle_idx
    /\ cur_scen = c.cur_scen
    /\ scenarios_this_epoch = c.scenarios_this_epoch
    /\ best = c.best

\* ScenarioCycler.__init__
NewCycler(order) ==
    [all_scenario_list |-> order,
     cycle_idx |-> 0,
     cur_scen |-> order[1],
     scenarios_this_epoch |-> {},
     best |-> None]

\* A cursor step that forgets to refresh _cur_scen.
iter_scen_stale(c) ==
    [c EXCEPT !.cycle_idx = (c.cycle_idx + 1) % Len(c.all_scenario_list)]

\* ScenarioCycler._iter_scen
iter_scen(c) ==
    LET idx == (c.cycle_idx + 1) % Len(c.all_scenario_list)
    IN  [c EXCEPT !.cycle_idx = idx, !.cur_scen = c.all_scenario_list[idx + 1]]

\* get_next() that does not mark the candidate it hands out.
get_next_nomark(c) ==
    IF c.cur_scen \in c.scenarios_this_epoch
    THEN [c |-> iter_scen(c), ret |-> None]
    ELSE [c |-> iter_scen(c), ret |-> c.cur_scen]

\* get_next() that keeps the cursor when the candidate was already visited.
get_next_stay(c) ==
    IF c.cur_scen \in c.scenarios_this_epoch
    THEN [c |-> c, ret |-> None]
    ELSE [c |-> iter_scen([c EXCEPT !.scenarios_this_epoch = @ \cup {c.cur_scen}]),
          ret |-> c.cur_scen]

\* ScenarioCycler.get_next
get_next(c) ==
    IF c.cur_scen \in c.scenarios_this_epoch
    THEN [c |-> iter_scen(c), ret |-> None]
    ELSE [c |-> iter_scen([c EXCEPT !.scenarios_this_epoch = @ \cup {c.cur_scen}]),
          ret |-> c.cur_scen]

\* begin_epoch() that also takes the cursor back to the start of the order.
begin_epoch_rewind(c) ==
    [c EXCEPT !.scenarios_this_epoch = {}, !.cycle_idx = 0,
              !.cur_scen = c.all_scenario_list[1]]

\* begin_epoch() that keeps the visited set.
begin_epoch_keep(c) == c

\* ScenarioCycler.begin_epoch
begin_epoch(c) == [c EXCEPT !.scenarios_this_epoch = {}]

\* The best getter as a plain accessor, without its side effect.
best_get_pure(c) == [c |-> c, ret |-> c.best]

\* ScenarioCycler.best (getter)
best_get(c) ==
    [c |-> [c EXCEPT !.scenarios_this_epoch = @ \cup {c.best}], ret |-> c.best]

\* ScenarioCycler.best (setter)
best_set(c, value) == [c EXCEPT !.best = value]

(***************************************************************************)
(* The caller's view of the calls: the last operation, what it returned,   *)
(* and what the calls of the current epoch and of the run returned.        *)
(***************************************************************************)
Observed ==
    [op |-> op, ret |-> ret, epoch_start |-> epoch_start,
     epoch_calls |-> epoch_calls, epoch_returned |-> epoch_returned,
     pinned_read |-> pinned_read, recording |-> recording, history |-> history]

SetObserved(o) ==
    /\ op' = o.op
    /\ ret' = o.ret
    /\ epoch_start' = o.epoch_start
    /\ epoch_calls' = o.epoch_calls
    /\ epoch_returned' = o.epoch_returned
    /\ pinned_read' = o.pinned_read
    /\ recording' = o.recording
    /\ history' = o.history

InitObserved(o) ==
    /\ op = o.op
    /\ ret = o.ret
    /\ epoch_start = o.epoch_start
    /\ epoch_calls = o.epoch_calls
    /\ epoch_returned = o.epoch_returned
    /\ pinned_read = o.pinned_read
    /\ recording = o.recording
    /\ history = o.history

NewObserved ==
    [op |-> "init", ret |-> None, epoch_start |-> 0, epoch_calls |-> <<>>,
     epoch_returned |-> <<>>, pinned_read |-> {}, recording |-> TRUE,
     history |-> <<>>]

\* The run's history is kept from construction while only get_next() and
\* begin_epoch() are called and it is not longer than MaxHist.
Record(o, entry) ==
    IF o.recording /\ Len(o.history) < MaxHist
    THEN [o EXCEPT !.history = Append(@, entry)]
    ELSE [o EXCEPT !.history = <<>>, !.recording = FALSE]

StopRecording(o) == [o EXCEPT !.history = <<>>, !.recording = FALSE]

SawGetNext(o, r) ==
    Record([o EXCEPT !.op = "get_next",
                     !.ret = r,
                     !.epoch_calls = IF Len(@) < MaxCalls THEN Append(@, r) ELSE @,
                     !.epoch_returned = IF r # None THEN Append(@, r) ELSE @],
           <<"get_next", r>>)

\* cursor: the cursor at which the new epoch begins.
SawBeginEpoch(o, cursor) ==
    Record([o EXCEPT !.op = "begin_epoch",
                     !.ret = None,
                     !.epoch_start = cursor,
                     !.epoch_calls = <<>>,
                     !.epoch_returned = <<>>,
                     !.pinned_read = {}],
           <<"begin_epoch", None>>)

SawBestGet(o, r) ==
    StopRecording([o EXCEPT !.op = "best_get", !.ret = r,
                            !.pinned_read = @ \cup {r}])

SawBestSet(o) == StopRecording([o EXCEPT !.op = "best_set", !.ret = None])

CallGetNext ==
    LET r == get_next(Cycler)
    IN  /\ SetCycler(r.c)
        /\ SetObserved(SawGetNext(Observed, r.ret))

CallBeginEpoch ==
    /\ SetCycler(begin_epoch(Cycler))
    /\ SetObserved(SawBeginEpoch(Observed, cycle_idx))

CallBestGet ==
    LET r == best_get(Cycler)
    IN  /\ SetCycler(r.c)
        /\ SetObserved(SawBestGet(Observed, r.ret))

CallBestSet(value) ==
    /\ SetCycler(best_set(Cycler, value))
    /\ SetObserved(SawBestSet(Observed))

(***************************************************************************)
(* Objective values and bounds: Python floats with inf and -inf, and None  *)
(* for an infeasible candidate.                                            *)
(***************************************************************************)
Fin(v) == <<"fin", v>>

Inf == <<"inf", 0>>

NegInf == <<"ninf", 0>>

\* _try_one() / xhat_tryit() returned None: the candidate is infeasible.
Infeasible == <<"none", 0>>

\* Not set yet (an attribute before its first assignment, a tick without
\* an evaluation).
Unset == <<"unset", 0>>

\* Objective values the evaluator may return.
ObjValues == {3, 4, 5, 7, 9, 10}

Objectives == {Fin(v) : v \in ObjValues} \cup {Infeasible}

Level(x) == CASE x[1] = "ninf" -> 0 [] x[1] = "fin" -> 1 [] x[1] = "inf" -> 2

\* a < b on floats.
Lt(a, b) ==
    \/ Level(a) < Level(b)
    \/ (a[1] = "fin" /\ b[1] = "fin" /\ a[2] < b[2])

Abs(x) == IF x < 0 THEN -x ELSE x

Spokes == {"shuffle", "specific"}

Upd(f, s, v) == [f EXCEPT ![s] = v]

(***************************************************************************)
(* Start-up of the spokes.                                                 *)
(***************************************************************************)
\* options["bundles_per_rank"]: <<present, value>>.
Bundles == {<<FALSE, 0>>, <<TRUE, 0>>, <<TRUE, 2>>}

\* self.opt.E1, the total scenario probability, in hundredths.
E1Values == {97, 100}

\* self.opt.E1_tolerance, in hundredths.
E1_tolerance == 1

ShuffleOptions ==
    [multistage : BOOLEAN, bundles : Bundles, is_tryer : BOOLEAN,
     E1 : E1Values, feas_ok : BOOLEAN]

SpecificOptions == [bundles : Bundles, is_eval : BOOLEAN, E1 : E1Values]

\* A configuration both preps accept.
GoodShuffleOptions ==
    [multistage |-> FALSE, bundles |-> <<FALSE, 0>>, is_tryer |-> TRUE,
     E1 |-> 100, feas_ok |-> TRUE]

GoodSpecificOptions == [bundles |-> <<FALSE, 0>>, is_eval |-> TRUE, E1 |-> 100]

\* xhatbase_prep() without the two-stage check.
xhatbase_prep_nostage(o, is_rank0) ==
    IF o.bundles[1] /\ o.bundles[2] # 0
    THEN [pc |-> "failed", logged |-> FALSE]
    ELSE IF ~o.is_tryer
    THEN [pc |-> "failed", logged |-> FALSE]
    ELSE IF Abs(100 - o.E1) > E1_tolerance
    THEN [pc |-> "quit_E1", logged |-> is_rank0]
    ELSE IF ~o.feas_ok
    THEN [pc |-> "quit_feas", logged |-> is_rank0]
    ELSE [pc |-> "loop", logged |-> FALSE]

\* XhatShuffleInnerBound.xhatbase_prep: "failed" is the RuntimeError, "quit_*"
\* the quit(); is_rank0 is self.rank_global == self.opt.rank0.
xhatbase_prep(o, is_rank0) ==
    IF o.multistage
    THEN [pc |-> "failed", logged |-> FALSE]
    ELSE IF o.bundles[1] /\ o.bundles[2] # 0
    THEN [pc |-> "failed", logged |-> FALSE]
    ELSE IF ~o.is_tryer
    THEN [pc |-> "failed", logged |-> FALSE]
    ELSE IF Abs(100 - o.E1) > E1_tolerance
    THEN [pc |-> "quit_E1", logged |-> is_rank0]
    ELSE IF ~o.feas_ok
    THEN [pc |-> "quit_feas", logged |-> is_rank0]
    ELSE [pc |-> "loop", logged |-> FALSE]

\* XhatSpecificInnerBound.ib_prep; is_rank0 is self.opt.cylinder_rank == 0.
ib_prep(o, is_rank0) ==
    IF o.bundles[1] /\ o.bundles[2] # 0
    THEN [pc |-> "failed", logged |-> FALSE]
    ELSE IF ~o.is_eval
    THEN [pc |-> "failed", logged |-> FALSE]
    ELSE IF Abs(100 - o.E1) > E1_tolerance
    THEN [pc |-> "quit_E1", logged |-> is_rank0]
    ELSE [pc |-> "loop", logged |-> FALSE]

\* XhatShuffleInnerBound.main up to its loop (lines 113-132).
ShuffleStart ==
    /\ "shuffle" \in launched
    /\ pc["shuffle"] = "start"
    /\ \E is_rank0 \in BOOLEAN :
         LET r == xhatbase_prep(opts["shuffle"], is_rank0)
         IN  /\ pc' = Upd(pc, "shuffle", r.pc)
             /\ logged' = Upd(logged, "shuffle", r.logged)
             /\ ib' = IF r.pc = "loop"
                      THEN (IF is_minimizing THEN Inf ELSE NegInf)
                      ELSE ib
    /\ UNCHANGED <<cyclerVars, hubVars, opts, new_nonants, localnonants,
                   last_seen, cache, bound, spokeObs>>

\* XhatSpecificInnerBound.main up to its loop (lines 64-79).
SpecificStart ==
    /\ "specific" \in launched
    /\ pc["specific"] = "start"
    /\ \E is_rank0 \in BOOLEAN :
         LET r == ib_prep(opts["specific"], is_rank0)
         IN  /\ pc' = Upd(pc, "specific", r.pc)
             /\ logged' = Upd(logged, "specific", r.logged)
    /\ UNCHANGED <<cyclerVars, hubVars, opts, new_nonants, localnonants,
                   last_seen, cache, bound, ib, spokeObs>>

(***************************************************************************)
(* The hub and the spoke base class (cylinders/hub.py, cylinders/spoke.py).*)
(***************************************************************************)
\* Most iterates the hub publishes.
MaxVersion == 2

\* The slot of the SharedIterateChannel in the current state.
Slot == [version |-> version, values |-> values]

\* publish() that stores the new version tag over the old values.
publish_torn(slot) == [version |-> slot.version + 1, values |-> slot.values]

\* SharedIterateChannel.publish: stores the next version and its values as
\* one pair.
publish(slot) == [version |-> slot.version + 1, values |-> slot.version + 1]

\* SharedIterateChannel.read: the pair published last.
read(slot) == slot

\* has_changed() that reports every iterate as new.
has_changed_always(v, last_seen_version) == TRUE

\* SharedIterateChannel.has_changed(last_seen_version) for a read version v.
has_changed(v, last_seen_version) == v > last_seen_version

\* The hub publishes a new iterate.
HubPublish ==
    /\ hub_pc = "running"
    /\ version < MaxVersion
    /\ version' = publish(Slot).version
    /\ values' = publish(Slot).values
    /\ UNCHANGED <<cyclerVars, launched, is_minimizing, hub_pc, kill, kill_reason,
                   raises, raised_with, reportVars, spokeVars, spokeObs>>

\* Most raise() calls made by others than the hub.
MaxRaises == 2

\* The reasons a raise() call may give.
Reasons == {"converged", "time limit"}

\* The kill signal in the current state.
KillSignal == [raised |-> kill, reason |-> kill_reason]

\* raise() that records the reason of every call.
kill_raise_overwrite(sig, reason) == [raised |-> TRUE, reason |-> reason]

\* KillSignal.raise(reason): write-once; a call on a raised signal is a no-op.
kill_raise(sig, reason) ==
    IF sig.raised THEN sig ELSE [raised |-> TRUE, reason |-> reason]

\* A raise() call with the given reason.
Raise(reason) ==
    LET sig == kill_raise(KillSignal, reason)
    IN  /\ kill' = sig.raised
        /\ kill_reason' = sig.reason
        /\ raises' = IF raises < MaxRaises THEN raises + 1 ELSE raises
        /\ raised_with' = reason

\* The hub decides to stop and raises the kill signal.
HubKill ==
    /\ hub_pc = "running"
    /\ Raise("converged")
    /\ hub_pc' = "done"
    /\ UNCHANGED <<cyclerVars, launched, is_minimizing, version, values,
                   reportVars, spokeVars, spokeObs>>

\* A converger (or the hub once more) calls raise(), raised or not.
ConvergerRaise ==
    /\ raises < MaxRaises
    /\ \E reason \in Reasons : Raise(reason)
    /\ UNCHANGED <<cyclerVars, launched, is_minimizing, hub_pc, version, values,
                   reportVars, spokeVars, spokeObs>>

\* A loop test that does not look at the kill signal.
LoopContinuesAlways(k) == TRUE

\* "while not self.got_kill_signal()".
LoopContinues(k) == ~k

Bump(n) == IF n < 2 THEN n + 1 ELSE n

\* Spoke.got_kill_signal() as the loop test of spoke s: reads the kill signal
\* and the published iterate, sets new_nonants when the iterate is newer than
\* the one seen last, and enters the tick or leaves the loop.
LoopTest(s) ==
    /\ s \in launched
    /\ pc[s] = "loop"
    /\ new_nonants' = Upd(new_nonants, s, has_changed(read(Slot).version, last_seen[s]))
    /\ localnonants' = Upd(localnonants, s, read(Slot).values)
    /\ last_seen' = Upd(last_seen, s, read(Slot).version)
    /\ pc' = Upd(pc, s, IF LoopContinues(kill) THEN "tick" ELSE "done")
    /\ ticks_after_kill' =
          IF kill /\ pc'[s] = "tick"
          THEN Upd(ticks_after_kill, s, Bump(ticks_after_kill[s]))
          ELSE ticks_after_kill
    /\ UNCHANGED <<cyclerVars, hubVars, opts, cache, bound, logged, ib,
                   watch, last_try, evals_after_kill, best_fed, eval_rec, evlog,
                   epoch_no, eval_on>>

ShuffleLoopTest == LoopTest("shuffle")

SpecificLoopTest == LoopTest("specific")

\* opt._put_nonant_cache(self.localnonants); opt._restore_nonants()
PutCache(s) == IF new_nonants[s] THEN Upd(cache, s, localnonants[s]) ELSE cache

\* A tick that evaluates before it refreshes the cache.
EvalUsesStale(s) == cache[s]

\* The iterate the evaluation of a tick runs on: the cache as lines 139-148
\* left it, the evaluation (lines 150-161) coming after them.
EvalUses(s) == PutCache(s)[s]

EvalsAfterKill(s, evaluated) ==
    IF kill /\ evaluated
    THEN Upd(evals_after_kill, s, Bump(evals_after_kill[s]))
    ELSE evals_after_kill

(***************************************************************************)
(* The bound reports: a spoke sends one whenever it sets self.bound; the   *)
(* hub processes those in flight in any order.                             *)
(***************************************************************************)
\* Most reports in flight.
MaxInFlight == 2

BoundReport(s, value, based_on) ==
    [spoke_id |-> s, value |-> value, based_on_version |-> based_on]

\* Objective values the evaluator returns in a run whose reports are followed.
ReportObjValues == {3, 5, 7}

\* What the evaluator may return in this run.
Returned ==
    IF track_reports
    THEN {Fin(v) : v \in ReportObjValues} \cup {Infeasible}
    ELSE Objectives

\* The send of the bound setter: room for one more report.
CanSend == track_reports => Cardinality(reports) < MaxInFlight

\* The reports in flight after spoke s ended a tick that sent (or not) value
\* on the iterate in its cache.
Send(s, sent, value, based_on) ==
    IF track_reports /\ sent
    THEN reports \cup {BoundReport(s, value, based_on)}
    ELSE reports

\* value a is strictly better than best b in the sense given.
Improves(a, b, minimizing) == IF minimizing THEN Lt(a, b) ELSE Lt(b, a)

\* A hub that discards a report based on an older version than its own.
hub_update_fresh_only(cur, report, hub_version, minimizing) ==
    IF report.based_on_version < hub_version
    THEN cur
    ELSE IF Improves(report.value, cur, minimizing) THEN report.value ELSE cur

\* The hub's aggregation step on one report: the running best after it.
hub_update(cur, report, hub_version, minimizing) ==
    IF Improves(report.value, cur, minimizing) THEN report.value ELSE cur

\* The hub processes one of the reports in flight.
HubReceive ==
    /\ \E r \in reports :
         /\ reports' = reports \ {r}
         /\ hub_best' = hub_update(hub_best, r, version, is_minimizing)
         /\ hub_last' = <<r.based_on_version < version, hub_best' # hub_best,
                          hub_best[1] = "fin">>
    /\ UNCHANGED <<cyclerVars, hubState, track_reports, spokeVars, spokeObs>>

(***************************************************************************)
(* The sampling spoke: XhatShuffleInnerBound.                              *)
(***************************************************************************)
\* try_scenario() with the sense of the comparison swapped.
try_scenario_swapped(obj, cur, minimizing) ==
    IF obj = Infeasible
    THEN [update |-> FALSE, ib |-> cur.ib, bound |-> cur.bound]
    ELSE LET update == IF minimizing THEN Lt(cur.ib, obj) ELSE Lt(obj, cur.ib)
         IN  IF update
             THEN [update |-> TRUE, ib |-> obj, bound |-> obj]
             ELSE [update |-> FALSE, ib |-> cur.ib, bound |-> cur.bound]

\* try_scenario() that accepts an equal value as an improvement.
try_scenario_weak(obj, cur, minimizing) ==
    IF obj = Infeasible
    THEN [update |-> FALSE, ib |-> cur.ib, bound |-> cur.bound]
    ELSE LET update == IF minimizing THEN ~Lt(cur.ib, obj) ELSE ~Lt(obj, cur.ib)
         IN  IF update
             THEN [update |-> TRUE, ib |-> obj, bound |-> obj]
             ELSE [update |-> FALSE, ib |-> cur.ib, bound |-> cur.bound]

\* try_scenario() that takes an infeasible candidate for a feasible one of
\* the best possible value.
try_scenario_noguard(obj, cur, minimizing) ==
    LET val == IF obj = Infeasible
               THEN (IF minimizing THEN NegInf ELSE Inf)
               ELSE obj
        update == IF minimizing THEN Lt(val, cur.ib) ELSE Lt(cur.ib, val)
    IN  IF update
        THEN [update |-> TRUE, ib |-> val, bound |-> val]
        ELSE [update |-> FALSE, ib |-> cur.ib, bound |-> cur.bound]

\* XhatShuffleInnerBound.try_scenario: obj is what _try_one() returned,
\* cur the spoke's ib and bound; gives them after the call, and the result.
try_scenario(obj, cur, minimizing) ==
    IF obj = Infeasible
    THEN [update |-> FALSE, ib |-> cur.ib, bound |-> cur.bound]
    ELSE LET update == IF minimizing THEN Lt(obj, cur.ib) ELSE Lt(cur.ib, obj)
         IN  IF update
             THEN [update |-> TRUE, ib |-> obj, bound |-> obj]
             ELSE [update |-> FALSE, ib |-> cur.ib, bound |-> cur.bound]

\* The feeds of objective values the observer follows from the start of the
\* spoke: the evaluations are kept while what the evaluator returned so far
\* is the beginning of one of them.
Feeds == {<<10, 7, 9, 4>>, <<5, 3>>}

Follows(log, obj) ==
    \E feed \in Feeds :
        /\ Len(log) < Len(feed)
        /\ \A i \in 1..Len(log) : log[i].obj = Fin(feed[i])
        /\ obj = Fin(feed[Len(log) + 1])

\* The observer's record of one evaluation.
Seen(scen, obj, t) ==
    [scen |-> scen, obj |-> obj, ib |-> t.ib, sent |-> t.update, epoch |-> epoch_no]

\* The better of the best feasible objective so far and a new one.
BestFed(cur, obj, minimizing) ==
    IF obj = Infeasible THEN cur
    ELSE IF cur = Unset THEN obj
    ELSE IF minimizing THEN (IF obj[2] < cur[2] THEN obj ELSE cur)
    ELSE (IF obj[2] > cur[2] THEN obj ELSE cur)

\* A tick that pins every candidate it evaluated.
update_best_always(c, update, next_scenario) == best_set(c, next_scenario)

\* "if update: scenario_cycler.best = next_scenario" (lines 162-164).
update_best(c, update, next_scenario) ==
    IF update THEN best_set(c, next_scenario) ELSE c

\* One tick of the sampling spoke's loop with a candidate (lines 139-164).
ShuffleTry ==
    /\ "shuffle" \in launched
    /\ pc["shuffle"] = "tick"
    /\ get_next(Cycler).ret # None
    /\ CanSend
    /\ \E obj \in Returned :
         LET r == get_next(Cycler)
             t == try_scenario(obj, [ib |-> ib, bound |-> bound["shuffle"]],
                               is_minimizing)
             o == SawGetNext(Observed, r.ret)
         IN  /\ ib' = t.ib
             /\ reports' = Send("shuffle", t.update, obj, PutCache("shuffle")["shuffle"])
             /\ bound' = Upd(bound, "shuffle", t.bound)
             /\ SetCycler(update_best(r.c, t.update, r.ret))
             /\ IF watch
                THEN /\ SetObserved(IF t.update THEN SawBestSet(o) ELSE o)
                     /\ last_try' = Upd(last_try, "shuffle", <<r.ret, obj, t.update>>)
                     /\ best_fed' = BestFed(best_fed, obj, is_minimizing)
                ELSE UNCHANGED <<cyclerObs, last_try, best_fed>>
             /\ IF watch /\ eval_rec /\ Follows(evlog, obj)
                THEN /\ evlog' = Append(evlog, Seen(r.ret, obj, t))
                     /\ UNCHANGED <<eval_rec, epoch_no>>
                ELSE /\ evlog' = <<>>
                     /\ eval_rec' = FALSE
                     /\ epoch_no' = 0
    /\ cache' = PutCache("shuffle")
    /\ eval_on' = IF watch THEN EvalUses("shuffle") ELSE eval_on
    /\ evals_after_kill' = EvalsAfterKill("shuffle", TRUE)
    /\ pc' = Upd(pc, "shuffle", "loop")
    /\ UNCHANGED <<hubState, track_reports, hub_best, hub_last, opts, new_nonants,
                   localnonants, last_seen, logged, ticks_after_kill, watch>>

\* One tick of the sampling spoke's loop without a candidate (lines 139-150,
\* 165-166).
ShuffleIdle ==
    /\ "shuffle" \in launched
    /\ pc["shuffle"] = "tick"
    /\ get_next(Cycler).ret = None
    /\ LET r == get_next(Cycler)
       IN  /\ SetCycler(begin_epoch(r.c))
           /\ IF watch
              THEN /\ SetObserved(SawBeginEpoch(SawGetNext(Observed, r.ret),
                                                r.c.cycle_idx))
                   /\ last_try' = Upd(last_try, "shuffle", <<None, Unset, FALSE>>)
              ELSE UNCHANGED <<cyclerObs, last_try>>
    /\ epoch_no' = IF watch /\ eval_rec THEN epoch_no + 1 ELSE epoch_no
    /\ cache' = PutCache("shuffle")
    /\ pc' = Upd(pc, "shuffle", "loop")
    /\ UNCHANGED <<hubVars, opts, new_nonants, localnonants, last_seen, bound,
                   logged, ib, evals_after_kill, ticks_after_kill, best_fed,
                   eval_rec, evlog, eval_on, watch>>

(***************************************************************************)
(* The fixed-set spoke: XhatSpecificInnerBound.                            *)
(***************************************************************************)
\* InnerBoundSpoke.update_if_improving (cylinders/spoke.py): the bound is
\* sent only when it is strictly better than the one sent before.
update_if_improving(innerbound, cur_bound, minimizing) ==
    IF innerbound = Infeasible
    THEN [update |-> FALSE, bound |-> cur_bound]
    ELSE LET update == \/ cur_bound = Unset
                       \/ (IF minimizing THEN Lt(innerbound, cur_bound)
                                         ELSE Lt(cur_bound, innerbound))
         IN  [update |-> update, bound |-> IF update THEN innerbound ELSE cur_bound]

\* A loop that runs its pass in every tick.
TakesPassAlways(new) == TRUE

\* "if self.new_nonants:" (line 84): the pass runs in a tick with a new iterate.
TakesPass(new) == new

\* One tick of the fixed-set spoke's loop with a new iterate (lines 84-94).
SpecificTry ==
    /\ "specific" \in launched
    /\ pc["specific"] = "tick"
    /\ TakesPass(new_nonants["specific"])
    /\ CanSend
    /\ \E innerbound \in Returned :
         LET u == update_if_improving(innerbound, bound["specific"], is_minimizing)
         IN  /\ bound' = Upd(bound, "specific", u.bound)
             /\ reports' = Send("specific", u.update, innerbound,
                                PutCache("specific")["specific"])
             /\ last_try' = IF watch
                            THEN Upd(last_try, "specific",
                                     <<"xhat_scenario_dict", innerbound, u.update>>)
                            ELSE last_try
    /\ cache' = PutCache("specific")
    /\ evals_after_kill' = EvalsAfterKill("specific", TRUE)
    /\ pc' = Upd(pc, "specific", "loop")
    /\ UNCHANGED <<cyclerVars, hubState, track_reports, hub_best, hub_last, opts,
                   new_nonants, localnonants, last_seen, logged, ib, ticks_after_kill,
                   best_fed, eval_rec, evlog, epoch_no, eval_on, watch>>

\* One tick of the fixed-set spoke's loop without a new iterate.
SpecificIdle ==
    /\ "specific" \in launched
    /\ pc["specific"] = "tick"
    /\ ~TakesPass(new_nonants["specific"])
    /\ last_try' = IF watch THEN Upd(last_try, "specific", <<None, Unset, FALSE>>)
                            ELSE last_try
    /\ pc' = Upd(pc, "specific", "loop")
    /\ UNCHANGED <<cyclerVars, hubVars, opts, new_nonants, localnonants, last_seen,
                   cache, bound, logged, ib, evals_after_kill, ticks_after_kill,
                   best_fed, eval_rec, evlog, epoch_no, eval_on, watch>>

(***************************************************************************)
(* The specifications.                                                     *)
(***************************************************************************)
\* Longest candidate order of the sampling spoke in the group.
MaxScen == 2

\* The group before any process has started: the spokes in which, with
\* options o (a function of the spoke); observe: the observer follows the
\* ticks of the spokes; track: the reports in flight are followed.
GroupInit(which, o, minimizing, observe, track) ==
    /\ launched = which
    /\ is_minimizing = minimizing
    /\ hub_pc = "running"
    /\ kill = FALSE
    /\ kill_reason = None
    /\ raises = 0
    /\ raised_with = None
    /\ version = 0
    /\ values = 0
    /\ track_reports = track
    /\ reports = {}
    /\ hub_best = (IF minimizing THEN Inf ELSE NegInf)
    /\ hub_last = <<FALSE, FALSE, FALSE>>
    /\ pc = [s \in Spokes |-> IF s \in which THEN "start" ELSE "absent"]
    /\ opts = o
    /\ new_nonants = [s \in Spokes |-> FALSE]
    /\ localnonants = [s \in Spokes |-> 0]
    /\ last_seen = [s \in Spokes |-> 0]
    /\ cache = [s \in Spokes |-> 0]
    /\ bound = [s \in Spokes |-> Unset]
    /\ logged = [s \in Spokes |-> FALSE]
    /\ ib = Unset
    /\ watch = observe
    /\ last_try = [s \in Spokes |-> <<None, Unset, FALSE>>]
    /\ evals_after_kill = [s \in Spokes |-> 0]
    /\ ticks_after_kill = [s \in Spokes |-> 0]
    /\ best_fed = Unset
    /\ eval_rec = observe
    /\ evlog = <<>>
    /\ epoch_no = 0
    /\ eval_on = 0

GoodOptions == [s \in Spokes |-> IF s = "shuffle" THEN GoodShuffleOptions
                                                  ELSE GoodSpecificOptions]

\* CyclerSpec: a ScenarioCycler alone, under every sequence of calls.
CyclerSpecInit ==
    /\ \E order \in Orders(MaxOrder) : InitCycler(NewCycler(order))
    /\ InitObserved(NewObserved)
    /\ GroupInit({}, GoodOptions, TRUE, FALSE, FALSE)

CyclerNext ==
    /\ \/ CallGetNext
       \/ CallBeginEpoch
       \/ CallBestGet
       \/ \E value \in Range(all_scenario_list) : CallBestSet(value)
    /\ UNCHANGED <<hubVars, spokeVars, spokeObs>>

CyclerSpec == CyclerSpecInit /\ [][CyclerNext]_vars

\* ShuffleSpec: the hub and a sampling spoke with options its prep accepts,
\* its evaluations observed.
ShuffleSpecInit ==
    /\ \E n \in 1..MaxScen : InitCycler(NewCycler(Prefix(n)))
    /\ InitObserved(NewObserved)
    /\ \E minimizing \in BOOLEAN :
            GroupInit({"shuffle"}, GoodOptions, minimizing, TRUE, FALSE)

ShuffleNext ==
    \/ HubPublish
    \/ HubKill
    \/ ShuffleStart
    \/ ShuffleLoopTest
    \/ ShuffleTry
    \/ ShuffleIdle

ShuffleSpec == ShuffleSpecInit /\ [][ShuffleNext]_vars

\* Spec: the hub and one spoke of either kind, with any options.
Init ==
    /\ \E n \in 1..MaxScen : InitCycler(NewCycler(Prefix(n)))
    /\ InitObserved(NewObserved)
    /\ \E minimizing \in BOOLEAN :
         \/ \E o \in ShuffleOptions :
              GroupInit({"shuffle"}, Upd(GoodOptions, "shuffle", o), minimizing, TRUE,
                        FALSE)
         \/ \E o \in SpecificOptions :
              GroupInit({"specific"}, Upd(GoodOptions, "specific", o), minimizing, TRUE,
                        FALSE)

Next ==
    \/ HubPublish
    \/ HubKill
    \/ ShuffleStart
    \/ ShuffleLoopTest
    \/ ShuffleTry
    \/ ShuffleIdle
    \/ SpecificStart
    \/ SpecificLoopTest
    \/ SpecificTry
    \/ SpecificIdle

Spec == Init /\ [][Next]_vars

\* FairSpec: the hub and one spoke of either kind with options its prep
\* accepts, every started process scheduled again and again.
FairInit ==
    /\ \E n \in 1..MaxScen : InitCycler(NewCycler(Prefix(n)))
    /\ InitObserved(NewObserved)
    /\ \E minimizing \in BOOLEAN, which \in {{"shuffle"}, {"specific"}} :
         GroupInit(which, GoodOptions, minimizing, FALSE, FALSE)

FairSpec ==
    /\ FairInit
    /\ [][Next]_vars
    /\ WF_vars(ShuffleStart \/ ShuffleLoopTest \/ ShuffleTry \/ ShuffleIdle)
    /\ WF_vars(SpecificStart \/ SpecificLoopTest \/ SpecificTry \/ SpecificIdle)

\* KillSpec: the group of FairSpec with raise() called by others than the
\* hub as well, at any time and more than once.
KillNext ==
    \/ Next
    \/ ConvergerRaise

KillSpec == FairInit /\ [][KillNext]_vars

\* ReportSpec: the hub and one spoke of either kind with options its prep
\* accepts (the sampling spoke over one candidate), the bound reports
\* followed from the send to the hub's processing.
ReportInit ==
    /\ InitCycler(NewCycler(Prefix(1)))
    /\ InitObserved(NewObserved)
    /\ \E minimizing \in BOOLEAN, which \in {{"shuffle"}, {"specific"}} :
         GroupInit(which, GoodOptions, minimizing, FALSE, TRUE)

ReportNext ==
    \/ Next
    \/ HubReceive

ReportSpec == ReportInit /\ [][ReportNext]_vars

(***************************************************************************)
(* Claims about the ScenarioCycler (checked under CyclerSpec).             *)
(***************************************************************************)
Order(k) == all_scenario_list[(k % num_scenarios) + 1]

Min(a, b) == IF a < b THEN a ELSE b

\* Candidate that stood at the cursor when the last get_next() was called.
CursorBefore == Order(cycle_idx + num_scenarios - 1)

\* C1: in an epoch with no read of best, the first N get_next() calls each
\* return a candidate, namely the candidates of the order in cyclic order
\* from the cursor the epoch began at (so every candidate exactly once).
C1_EpochPassInOrder ==
    pinned_read = {} =>
        \A i \in 1..Min(Len(epoch_calls), num_scenarios) :
            epoch_calls[i] = Order(epoch_start + i - 1)

\* A full pass that began at a cursor other than 0, after begin_epoch().
C1_Witness ==
    /\ pinned_read = {}
    /\ num_scenarios = MaxOrder
    /\ epoch_start # 0
    /\ Len(epoch_calls) = num_scenarios
    /\ Range(epoch_calls) = Range(all_scenario_list)

\* The scripted run of a fresh cycler: N+1 get_next() calls that returned the
\* whole order and then no candidate, begin_epoch(), one more get_next().
ScriptRun ==
    /\ recording
    /\ Len(history) = num_scenarios + 3
    /\ \A i \in 1..num_scenarios : history[i] = <<"get_next", all_scenario_list[i]>>
    /\ history[num_scenarios + 1] = <<"get_next", None>>
    /\ history[num_scenarios + 2] = <<"begin_epoch", None>>
    /\ history[num_scenarios + 3][1] = "get_next"

\* C2 as stated: after the scripted run the last get_next() returned the
\* first candidate of the order again.
C2_Original == ScriptRun => history[num_scenarios + 3][2] = all_scenario_list[1]

\* C2 amended: the exhausted call advanced the cursor too, so the call after
\* begin_epoch() returns the candidate at index (N+1) mod N: the second
\* candidate of the order when N >= 2, the first only when N = 1.
C2_NextEpochStartsAfterSkip ==
    ScriptRun => history[num_scenarios + 3][2] = Order(num_scenarios + 1)

C2_Witness == ScriptRun /\ num_scenarios >= 2

\* C3: no candidate is returned by get_next() twice within one epoch.
C3_NoRepeatInEpoch ==
    \A i, j \in DOMAIN epoch_returned :
        i # j => epoch_returned[i] # epoch_returned[j]

\* A whole order returned and further calls made in the same epoch, with the
\* pinned best written and read along the way.
C3_Witness ==
    /\ num_scenarios >= 2
    /\ Len(epoch_returned) = num_scenarios
    /\ Len(epoch_calls) > num_scenarios
    /\ best # None

\* C4: a read of best returns the pinned best and marks it visited in the
\* current epoch; a candidate marked by such a read stays visited for the
\* rest of the epoch and get_next() never returns it: the call whose cursor
\* stands at it returns no candidate.
C4_BestReadPins ==
    /\ op = "best_get" => (ret = best /\ best \in scenarios_this_epoch)
    /\ pinned_read \subseteq scenarios_this_epoch
    /\ (op = "get_next" /\ CursorBefore \in pinned_read) => ret = None
    /\ (op = "get_next" /\ ret # None) => ret \notin pinned_read

\* The cursor reached a candidate that only the read of best had marked.
C4_Witness ==
    /\ op = "get_next"
    /\ ret = None
    /\ best # None
    /\ CursorBefore = best
    /\ best \in pinned_read
    /\ best \notin Range(epoch_returned)

(***************************************************************************)
(* Claims about the spokes.                                                *)
(***************************************************************************)
\* Spoke s evaluated a candidate in this step: a tick that ended with an
\* evaluation behind it.
Evaluated(s) == pc[s] = "tick" /\ pc'[s] = "loop" /\ last_try'[s][1] # None

\* Feasible objective a strictly improves on best b in the run's sense.
StrictlyBetter(a, b) ==
    IF is_minimizing
    THEN b = Inf \/ (b[1] = "fin" /\ a[2] < b[2])
    ELSE b = NegInf \/ (b[1] = "fin" /\ a[2] > b[2])

Worst == IF is_minimizing THEN Inf ELSE NegInf

ObjsOf(log) == [i \in 1..Len(log) |-> log[i].obj]

IbsOf(log) == [i \in 1..Len(log) |-> log[i].ib]

IsPrefix(a, b) == Len(a) <= Len(b) /\ \A i \in 1..Len(a) : a[i] = b[i]

\* C5 (ShuffleSpec): ib and the bound sent change only in an evaluation whose
\* feasible objective is strictly better than ib (smaller when minimizing,
\* larger when maximizing), and then both become that objective; an equal or
\* worse objective changes neither and is not sent. So ib always is the best
\* objective fed so far, and the feed 10, 7, 9, 4 records 10, 7, 7, 4.
C5_StrictImprovementOnly ==
    /\ [][/\ (ib' # ib \/ bound'["shuffle"] # bound["shuffle"]) =>
               \/ (ib = Unset /\ ib' = Worst /\ bound' = bound)
               \/ (Evaluated("shuffle") /\ last_try'["shuffle"][3])
          /\ Evaluated("shuffle") =>
               LET obj == last_try'["shuffle"][2]
                   sent == last_try'["shuffle"][3]
               IN  /\ sent <=> (obj # Infeasible /\ StrictlyBetter(obj, ib))
                   /\ sent => (ib' = obj /\ bound'["shuffle"] = obj)
                   /\ ~sent => (ib' = ib /\ bound' = bound)]_vars
    /\ [](ib # Unset => ib = IF best_fed = Unset THEN Worst ELSE best_fed)
    /\ []((eval_rec /\ is_minimizing
             /\ IsPrefix(ObjsOf(evlog), <<Fin(10), Fin(7), Fin(9), Fin(4)>>))
          => IsPrefix(IbsOf(evlog), <<Fin(10), Fin(7), Fin(7), Fin(4)>>))

\* The feed 10, 7, 9, 4 when minimizing, across an epoch reset and a new iterate.
C5_Witness ==
    /\ eval_rec
    /\ is_minimizing
    /\ ObjsOf(evlog) = <<Fin(10), Fin(7), Fin(9), Fin(4)>>
    /\ IbsOf(evlog) = <<Fin(10), Fin(7), Fin(7), Fin(4)>>
    /\ ib = Fin(4)
    /\ epoch_no >= 1
    /\ cache["shuffle"] >= 1

\* C6 (ShuffleSpec): an evaluation that finds the candidate infeasible leaves
\* ib, the bound sent and the cycler's best as they were, sends nothing, and
\* the spoke is back at its loop test; the loop is left only on the kill
\* signal.
C6_InfeasibleSkips ==
    /\ [][(Evaluated("shuffle") /\ last_try'["shuffle"][2] = Infeasible) =>
            /\ ib' = ib
            /\ bound' = bound
            /\ best' = best
            /\ ~last_try'["shuffle"][3]
            /\ pc'["shuffle"] = "loop"]_vars
    /\ [](pc["shuffle"] \in {"start", "loop", "tick", "done"})
    /\ [](pc["shuffle"] = "done" => kill)

\* An infeasible candidate met after a best was found, the spoke going on.
C6_Witness ==
    /\ last_try["shuffle"][2] = Infeasible
    /\ ib[1] = "fin"
    /\ best # None
    /\ pc["shuffle"] = "tick"
    /\ ~kill

\* The first epoch of the end-to-end run: order s1, s2, s1 evaluated to 5 and
\* s2 to 3.
EndToEndRun ==
    /\ eval_rec
    /\ is_minimizing
    /\ all_scenario_list = <<"s1", "s2">>
    /\ Len(evlog) = 2
    /\ evlog[1].scen = "s1" /\ evlog[1].obj = Fin(5) /\ evlog[1].epoch = 0
    /\ evlog[2].scen = "s2" /\ evlog[2].obj = Fin(3) /\ evlog[2].epoch = 0

\* C7 (ShuffleSpec): in the end-to-end run the value 3 is sent exactly once
\* within the epoch, based on s2, and the best bound is 3.
C7_EndToEnd ==
    EndToEndRun =>
        /\ Cardinality({i \in 1..Len(evlog) :
                          evlog[i].sent /\ evlog[i].obj = Fin(3)}) = 1
        /\ evlog[2].sent
        /\ ib = Fin(3)
        /\ bound["shuffle"] = Fin(3)
        /\ best = "s2"

\* The end-to-end run under the one iterate the hub published, its epoch over.
C7_Witness ==
    /\ EndToEndRun
    /\ version = 1
    /\ cache["shuffle"] = 1
    /\ epoch_no = 1

Left(s) == pc[s] \in {"done", "failed", "quit_E1", "quit_feas"}

\* C8 (FairSpec): a tick never begins with the kill signal raised, at most
\* one evaluation of a spoke begins with it raised, and once it is raised
\* every spoke eventually is out of its main loop.
C8_KillStopsLoops ==
    /\ [](\A s \in Spokes : ticks_after_kill[s] = 0 /\ evals_after_kill[s] <= 1)
    /\ (kill ~> (\A s \in launched : Left(s)))

\* A spoke that evaluated once more after the kill signal and then left.
C8_Witness ==
    \E s \in launched : kill /\ evals_after_kill[s] = 1 /\ pc[s] = "done"

Bundled(o) == o.bundles[1] /\ o.bundles[2] # 0

Incompatible(s) ==
    IF s = "shuffle"
    THEN opts[s].multistage \/ Bundled(opts[s]) \/ ~opts[s].is_tryer
    ELSE Bundled(opts[s]) \/ ~opts[s].is_eval

\* C9 (Spec): a spoke with an incompatible configuration is either not
\* started yet or failed; it is never in its loop, has evaluated nothing,
\* sent no bound and (sampling spoke) made no call of the cycler.
C9_BadConfigNeverLoops ==
    \A s \in launched :
        Incompatible(s) =>
            /\ pc[s] \in {"start", "failed"}
            /\ last_try[s] = <<None, Unset, FALSE>>
            /\ bound[s] = Unset
            /\ op = "init"

\* A sampling spoke whose only fault is a multistage model has failed, the
\* hub running on.
C9_Witness ==
    /\ "shuffle" \in launched
    /\ opts["shuffle"].multistage
    /\ ~Bundled(opts["shuffle"])
    /\ opts["shuffle"].is_tryer
    /\ pc["shuffle"] = "failed"
    /\ version >= 1

\* C10 (Spec), as claimed: a spoke that left over the total probability E1
\* has logged the discrepancy, and the whole group is stopped: the hub is
\* not running on.
C10_E1StopsGroup ==
    \A s \in launched :
        pc[s] = "quit_E1" => (logged[s] /\ hub_pc = "done")

\* C11 (Spec): a tick of the fixed-set spoke with a new iterate runs one pass
\* over the list, on that iterate; a tick without one runs none and changes
\* nothing; the result of a pass is sent exactly when it is feasible and
\* strictly better than the bound sent before (or none was sent yet), and
\* the bound sent changes in no other way.
C11_PassPerNewIterate ==
    [][/\ (pc["specific"] = "tick" /\ pc'["specific"] # "tick") =>
            /\ pc'["specific"] = "loop"
            /\ new_nonants["specific"] =>
                  /\ Evaluated("specific")
                  /\ cache'["specific"] = localnonants["specific"]
            /\ ~new_nonants["specific"] =>
                  /\ last_try'["specific"] = <<None, Unset, FALSE>>
                  /\ bound' = bound
                  /\ cache' = cache
       /\ Evaluated("specific") =>
            LET obj == last_try'["specific"][2]
                sent == last_try'["specific"][3]
                prev == bound["specific"]
            IN  /\ sent <=> /\ obj # Infeasible
                            /\ (prev = Unset \/ StrictlyBetter(obj, prev))
                /\ bound'["specific"] = IF sent THEN obj ELSE prev
       /\ bound'["specific"] # bound["specific"] =>
            (Evaluated("specific") /\ last_try'["specific"][3])]_vars

\* A second pass whose feasible result did not improve on the bound sent
\* after the first.
C11_Witness ==
    /\ "specific" \in launched
    /\ cache["specific"] = 2
    /\ last_try["specific"][1] # None
    /\ last_try["specific"][2] # Infeasible
    /\ ~last_try["specific"][3]
    /\ bound["specific"] # Unset
    /\ pc["specific"] = "loop"

\* The sampling spoke evaluates the i-th candidate of its order in this step.
EvaluatesCandidate(i) ==
    /\ ShuffleTry
    /\ i <= num_scenarios
    /\ cur_scen = all_scenario_list[i]

\* C12 (FairSpec): with the sampling spoke scheduled again and again, every
\* candidate of its order is evaluated infinitely often unless the kill
\* signal is raised, for every size of the order.
C12_NoStarvation ==
    \A i \in 1..MaxScen :
        \/ "shuffle" \notin launched
        \/ i > num_scenarios
        \/ <>kill
        \/ []<><<EvaluatesCandidate(i)>>_vars

\* The second epoch of an order of two, which began at the second candidate
\* (the cursor passed the first on the exhausted call): the second candidate
\* was evaluated again, the first is due.
C12_Witness ==
    /\ "shuffle" \in launched
    /\ ~kill
    /\ num_scenarios = 2
    /\ scenarios_this_epoch = {all_scenario_list[2]}
    /\ cycle_idx = 0
    /\ pc["shuffle"] = "loop"
    /\ ib # Worst

\* C13 (CyclerSpec), as claimed: after any sequence of calls the visited set
\* holds only candidates of the order and at most as many as the order has,
\* the cursor is in 0..N-1 and the current candidate is the one at the cursor.
C13_CyclerStateInvariant ==
    /\ scenarios_this_epoch \subseteq Range(all_scenario_list)
    /\ Cardinality(scenarios_this_epoch) <= num_scenarios
    /\ cycle_idx \in 0..(num_scenarios - 1)
    /\ cur_scen = all_scenario_list[cycle_idx + 1]

\* C14 (CyclerSpec): a get_next() call made while the candidate at the cursor
\* is in the visited set returns no candidate, moves the cursor one position
\* on (modulo N, the current candidate with it) and leaves the visited set,
\* the pinned best and the order unchanged.
C14_ExhaustedCallFrame ==
    [][(op' = "get_next" /\ cur_scen \in scenarios_this_epoch) =>
          /\ ret' = None
          /\ cycle_idx' = (cycle_idx + 1) % num_scenarios
          /\ cur_scen' = all_scenario_list[cycle_idx' + 1]
          /\ scenarios_this_epoch' = scenarios_this_epoch
          /\ best' = best
          /\ all_scenario_list' = all_scenario_list]_vars

\* Such a call on an order of the greatest size, the cursor wrapping from the
\* last position to the first, with a best pinned and a partly visited set.
C14_Witness ==
    /\ op = "get_next"
    /\ ret = None
    /\ num_scenarios = MaxOrder
    /\ cycle_idx = 0
    /\ best # None
    /\ Cardinality(scenarios_this_epoch) < num_scenarios

\* C15 (KillSpec): a raised kill signal stays raised and keeps the reason it
\* was raised with; a raise() call on a raised signal changes neither the
\* signal nor any spoke; and a spoke that polls a raised signal at its loop
\* test leaves its loop.
C15_KillTerminal ==
    /\ [][kill => (kill' /\ kill_reason' = kill_reason)]_vars
    /\ [][(kill /\ raises' # raises) =>
            UNCHANGED <<kill, kill_reason, version, cyclerFields, spokeVars>>]_vars
    /\ [][\A s \in launched :
            (kill /\ pc[s] = "loop" /\ pc'[s] # "loop") => pc'[s] = "done"]_vars
    /\ [](kill <=> kill_reason # None)

\* The signal raised for convergence and raised again for another reason, a
\* spoke having left its loop on it.
C15_Witness ==
    /\ kill
    /\ kill_reason = "converged"
    /\ raised_with = "time limit"
    /\ raises = 2
    /\ \E s \in launched : pc[s] = "done"

\* Spoke s polls the channel in this step (its loop test).
Polls(s) == pc[s] = "loop" /\ pc'[s] # "loop"

\* Spoke s ends a tick in this step.
EndsTick(s) == pc[s] = "tick" /\ pc'[s] = "loop"

\* C16 (Spec): the hub's versions only grow; the version a spoke saw last
\* never decreases from poll to poll; a poll marks the iterate as new exactly
\* when its version is greater than the one the spoke saw last, and the
\* new-iterate branch of a tick runs only then, moving the cache to a
\* greater version, the one seen last.
C16_VersionMonotone ==
    /\ [][version' >= version]_vars
    /\ [][\A s \in launched :
            /\ last_seen'[s] >= last_seen[s]
            /\ Polls(s) => /\ last_seen'[s] = version
                           /\ new_nonants'[s] <=> (last_seen'[s] > last_seen[s])
            /\ cache'[s] # cache[s] =>
                  /\ EndsTick(s)
                  /\ new_nonants[s]
                  /\ cache'[s] > cache[s]
                  /\ cache'[s] = last_seen[s]]_vars

\* A spoke that polled version 0 and then version 2: version 1 was skipped.
C16_Witness ==
    \E s \in launched :
        /\ pc[s] = "tick"
        /\ new_nonants[s]
        /\ last_seen[s] = 2
        /\ cache[s] = 0

\* C17 (Spec): the slot always holds a version with its own values; what a
\* spoke read last is such a pair; and the values a spoke copies into its
\* cache are those of one published version, the one it read last.
C17_NoTornRead ==
    /\ [](values = version)
    /\ [](\A s \in launched : localnonants[s] = last_seen[s])
    /\ [](\A s \in launched : cache[s] \in 0..version /\ cache[s] <= last_seen[s])
    /\ [][\A s \in launched :
            /\ Polls(s) => <<last_seen'[s], localnonants'[s]>> = <<version, values>>
            /\ cache'[s] # cache[s] => cache'[s] = last_seen[s]]_vars

\* A spoke holding the first iterate in its cache polls while the hub has
\* published the second: it read (2, values of 2).
C17_Witness ==
    \E s \in launched :
        /\ cache[s] = 1
        /\ version = 2
        /\ pc[s] = "tick"
        /\ last_seen[s] = 2
        /\ localnonants[s] = 2

\* The hub processes a report in this step.
Processes == reports' # reports /\ reports' \subseteq reports

Processed == CHOOSE r \in reports \ reports' : TRUE

\* C18 (ReportSpec): the hub's running best changes only to a strictly
\* better value; the report it processes, in whatever order the reports
\* arrive and whether or not it is based on an older version than the
\* hub's, replaces the running best exactly when its value is strictly
\* better, and is dropped otherwise.
C18_HubBestNeverRegresses ==
    /\ [][hub_best' # hub_best =>
            /\ Processes
            /\ StrictlyBetter(hub_best', hub_best)]_vars
    /\ [][Processes =>
            /\ Cardinality(reports \ reports') = 1
            /\ hub_best' = IF StrictlyBetter(Processed.value, hub_best)
                           THEN Processed.value
                           ELSE hub_best
            /\ hub_last'[1] <=> (Processed.based_on_version < version)
            /\ hub_last'[2] <=> StrictlyBetter(Processed.value, hub_best)]_vars

\* A report based on an older version than the hub's improved a finite
\* running best, another report still in flight.
C18_Witness ==
    /\ hub_last = <<TRUE, TRUE, TRUE>>
    /\ reports # {}
    /\ hub_best[1] = "fin"

\* The evaluations of the log that sent a bound.
SentIn(log) == {i \in 1..Len(log) : log[i].sent}

LastSent(log) == CHOOSE i \in SentIn(log) : \A j \in SentIn(log) : j <= i

\* C19 (ShuffleSpec): once the sampling spoke is in its loop the cycler's
\* best is unset exactly while ib is at its initial value; an improving
\* evaluation writes the candidate it evaluated to best and no other step
\* changes best; so best is the candidate of the last improving evaluation,
\* whose objective ib is.
C19_BestFollowsIb ==
    /\ [](pc["shuffle"] \in {"loop", "tick", "done"} => (best = None <=> ib = Worst))
    /\ [][/\ Evaluated("shuffle") =>
               best' = IF last_try'["shuffle"][3] THEN cur_scen ELSE best
          /\ best' # best => (Evaluated("shuffle") /\ last_try'["shuffle"][3])]_vars
    /\ []((eval_rec /\ SentIn(evlog) # {}) =>
             /\ best = evlog[LastSent(evlog)].scen
             /\ ib = evlog[LastSent(evlog)].obj)

\* The feed 10, 7, 9, 4 over two candidates: the best moved from the first
\* candidate to the second and, after the epoch reset and a worse value of
\* the second, back to the first.
C19_Witness ==
    /\ eval_rec
    /\ num_scenarios = 2
    /\ Len(evlog) = 4
    /\ SentIn(evlog) = {1, 2, 4}
    /\ evlog[2].scen # evlog[4].scen
    /\ best = evlog[4].scen
    /\ ib = Fin(4)

\* C20 (ShuffleSpec): an evaluation of the sampling spoke runs on the iterate
\* the spoke read at the loop test of its tick, the most recent it has seen:
\* a new iterate is in the cache before the candidate is evaluated.
C20_EvaluatesOnLatestSeen ==
    /\ [][Evaluated("shuffle") =>
            /\ eval_on' = last_seen["shuffle"]
            /\ eval_on' = localnonants["shuffle"]
            /\ eval_on' = cache'["shuffle"]]_vars
    /\ [](eval_on <= last_seen["shuffle"])

\* An evaluation in the tick that found the second iterate new, after a
\* bound was found on an older one.
C20_Witness ==
    /\ pc["shuffle"] = "loop"
    /\ new_nonants["shuffle"]
    /\ last_try["shuffle"][1] # None
    /\ eval_on = 2
    /\ Len(evlog) >= 2

\* C21 (CyclerSpec): begin_epoch() empties the visited set and leaves the
\* cursor, the current candidate, the pinned best and the order as they
\* were; the new epoch begins at the cursor, whose candidate the next
\* get_next() returns.
C21_BeginEpochFrame ==
    /\ [][op' = "begin_epoch" =>
            /\ scenarios_this_epoch' = {}
            /\ cycle_idx' = cycle_idx
            /\ cur_scen' = cur_scen
            /\ best' = best
            /\ all_scenario_list' = all_scenario_list
            /\ epoch_start' = cycle_idx]_vars
    /\ [][(op = "begin_epoch" /\ op' = "get_next") => ret' = cur_scen]_vars

\* An epoch reset with a best pinned, the cursor in the middle of the order.
C21_Witness ==
    /\ op = "begin_epoch"
    /\ best # None
    /\ num_scenarios = MaxOrder
    /\ cycle_idx \notin {0, num_scenarios - 1}
    /\ scenarios_this_epoch = {}

\* The last call was a get_next() that returned no candidate.
NoCandidate == op = "get_next" /\ ret = None

\* Every candidate of the order was returned by get_next() in the epoch.
FullPass == Range(epoch_returned) = Range(all_scenario_list)

\* C22 as stated: get_next() returns no candidate only when every candidate
\* of the order was returned by get_next() since the last reset.
C22_Original == NoCandidate => FullPass

\* C22 amended: get_next() returns no candidate only when the candidate at
\* the cursor was returned by get_next() or marked by a read of best since
\* the last reset; in an epoch in which no read of best marked a candidate
\* that is only after a full pass.
C22_NoCandidateMeansVisited ==
    NoCandidate =>
        /\ CursorBefore \in (Range(epoch_returned) \cup pinned_read)
        /\ (pinned_read \ {None}) = {} => FullPass

\* No candidate on the first call of an epoch: the read of best had marked
\* the candidate at the cursor, and nothing was tried.
C22_Witness ==
    /\ NoCandidate
    /\ num_scenarios >= 2
    /\ epoch_returned = <<>>
    /\ CursorBefore \in pinned_read

====
